---- MODULE Spec2Model ----
(***************************************************************************)
(* State machine of the AItest chat component (src/AItest.tsx).           *)
(*                                                                         *)
(* Text is a sequence of one-character strings, so that trim() and        *)
(* slice() are computed as the code computes them.  The long literals of  *)
(* the source that are only ever concatenated or compared (the three      *)
(* persona prompts, the starter, the three quick examples, the greeting)  *)
(* are written as short sequences of stand-in characters; none of them    *)
(* has leading or trailing white space in the source, and none has here.  *)
(*                                                                         *)
(* A React event handler, the re-render it causes and the effects of that *)
(* re-render form one action: React commits the batched state updates of  *)
(* a handler and flushes the effects before the next event is handled.    *)
(*                                                                         *)
(* Submit is the form's onSubmit handler, which runs for every submit     *)
(* event of the form.  The disabled attribute of the button (line 246,    *)
(* sendBtnDisabled) stops clicks and implicit submissions only; it is no  *)
(* guard of the handler, and sendMessage has only its own guards.         *)
(*                                                                         *)
(* Two things come from outside the component: the starter prop of each   *)
(* render (props; Rerender is a render with another one, on which the     *)
(* greeting effect runs again), and whether the constructor of the        *)
(* imported GoogleGenAI throws on a key (rejectedKeys, fixed per          *)
(* behaviour, any subset of the non-empty keys).                          *)
(***************************************************************************)
EXTENDS Naturals, Sequences, FiniteSets

VARIABLES
    model,          \* useState(defaultModel)                 line 17
    history,        \* useState<ChatMsg[]>([])                line 18
    input,          \* useState("")                           line 19
    apiKey,         \* useState("")                           line 20
    displayedText,  \* useState("")                           line 21
    rememberKey,    \* useState(true)                         line 22
    theme,          \* useState("default")                    line 23
    loading,        \* useState(false)                        line 24
    error,          \* useState("")                           line 25
    role,           \* useState(roles[0])                     line 40
    localStorage,   \* the slot "gemini_api_key" of the browser store: NoItem or <<text>>
    intervals,      \* the running setInterval timers, each with its closure (text, i)
    requests,       \* generateContent calls awaiting their result
    mounted,        \* whether the mount effects have run
    props,          \* the starter props AItest has been rendered with, the
                    \* current one last                       line 15
    rejectedKeys,   \* the keys new GoogleGenAI throws on    line 30
    edits,          \* number of model, theme, persona, input and prop edits so far
    pc,             \* where the latest call of sendMessage has got to
    log             \* history variable: the requests dispatched, in order, with outcome

vars == <<model, history, input, apiKey, displayedText, rememberKey, theme,
          loading, error, role, localStorage, intervals, requests, mounted,
          props, rejectedKeys, edits, pc, log>>

----------------------------------------------------------------------------
(* Bounds of the model *)

\* most messages put into the transcript, greetings included: a send is not
\* explored once its reply would not fit
MaxHistory == 5

\* number of edits of the model id, theme, persona and input field, and of
\* changes of the starter prop, explored
MaxEdits == 1

----------------------------------------------------------------------------
(* Values *)

NoItem == <<>>              \* localStorage.getItem() of an absent slot;
                            \* <<v>> is the slot holding the text v
NoClient == <<>>            \* ai when no client was constructed; <<key>> is
                            \* the client constructed from key
Undefined == <<>>           \* an optional argument left out; <<v>> is the argument v

defaultModel == "gemini-2.5-flash"
\* line 15: the default of the starter prop
starterDefault == <<"s", "t">>

\* line 15: the starter prop of the current render
starter == props[Len(props)]

\* the starter prop a parent passes on a later render: the empty text, for
\* which line 52 leaves the input as it is
StarterProps == { <<>> }

roles == <<
    [id |-> "coffee", prompt |-> <<"C">>],
    [id |-> "mentor", prompt |-> <<"M">>],
    [id |-> "coach",  prompt |-> <<"L">>] >>

themes == {"default", "dark", "green", "pink"}

quickExamples == { <<"q", "1">>, <<"q", "2">>, <<"q", "3">> }

greeting == <<"h", "i">>

noContent == <<"[", "]">>

\* mutant of noKeyError: the missing-key branch sets the empty text
noKeyErrorNone == ""

\* line 95 (the text is Chinese in the source)
noKeyError == "please enter a valid Gemini API Key"

\* what the user can type
ModelIds == {defaultModel, "gemini-2.0-pro"}
ApiKeys == {"", "key-A"}
InputTexts == { <<" ">>, <<"u3000", "y", " ">> }

\* the quick example the user clicks: the three buttons run the same handler
\* and differ only in their text
ClickedExamples == { <<"q", "1">> }

\* the themes and personas the user picks in the two selects
PickedThemes == {"default", "dark"}
PickedRoles == {1, 2}

\* what the browser store can hold when the component is constructed
StoredAtStart == {NoItem, <<"">>, <<"key-A">>}

\* what the external client can answer: resp.text, or a thrown Error
RespTexts == { <<>>, <<"o", "k">> }
Thrown == { [message |-> "quota exceeded", string |-> "Error: quota exceeded"],
            [message |-> "",               string |-> "Error"] }

----------------------------------------------------------------------------
(* Pure functions *)

\* the code units String.prototype.trim strips: the WhiteSpace and
\* LineTerminator productions of ECMAScript.  "uXXXX" stands for the code
\* unit U+XXXX where TLA+ has no escape for it.
WhiteSpace ==
    { "\t", "\n", "u000B", "\f", "\r", " ", "u00A0", "u1680",
      "u2000", "u2001", "u2002", "u2003", "u2004", "u2005", "u2006", "u2007",
      "u2008", "u2009", "u200A", "u2028", "u2029", "u202F", "u205F", "u3000",
      "uFEFF" }

RECURSIVE trimStart(_)
trimStart(s) ==
    IF s # <<>> /\ Head(s) \in WhiteSpace THEN trimStart(Tail(s)) ELSE s

RECURSIVE trimEnd(_)
trimEnd(s) ==
    IF s # <<>> /\ s[Len(s)] \in WhiteSpace
    THEN trimEnd(SubSeq(s, 1, Len(s) - 1))
    ELSE s

\* String.prototype.trim
trim(s) == trimEnd(trimStart(s))

\* text.slice(0, i)
slice(text, i) == SubSeq(text, 1, IF i < Len(text) THEN i ELSE Len(text))

ChatMsg(r, text) == [role |-> r, parts |-> << [text |-> text] >>]

\* mutant of ai: the client is constructed whatever the key
aiUnchecked(key, rejected) == <<key>>

\* line 28-34: the client, or null when the key is empty (line 30) or the
\* constructor threw (line 31-33)
ai(key, rejected) ==
    IF key # ""
    THEN IF key \in rejected THEN NoClient ELSE <<key>>
    ELSE NoClient

\* line 92: (message ?? input).trim()
Text(message, inp) == trim(IF message = Undefined THEN inp ELSE message[1])

\* mutant of Content: the text is not trimmed
ContentUntrimmed(prompt, message, inp) ==
    prompt \o <<"\n", "\n">> \o (IF message = Undefined THEN inp ELSE message[1])

\* line 92: `${role.prompt}\n\n${(message ?? input).trim()}`
Content(prompt, message, inp) == prompt \o <<"\n", "\n">> \o Text(message, inp)

\* mutant of Returns: the loading flag is not looked at
ReturnsIgnoringLoading(content, isLoading) == content = <<>>

\* mutant of Returns: && written for ||
ReturnsWhenBoth(content, isLoading) == content = <<>> /\ isLoading

\* line 93: if (!content || loading) return;
Returns(content, isLoading) == content = <<>> \/ isLoading

\* mutant of NewHistory: the message is given the role "model"
NewHistoryAsModel(h, content) == Append(h, ChatMsg("model", content))

\* mutant of NewHistory: the user message is put in front
NewHistoryPrepended(h, content) == << ChatMsg("user", content) >> \o h

\* line 101
NewHistory(h, content) == Append(h, ChatMsg("user", content))

\* mutant of Reply: no placeholder
ReplyWithoutFallback(text) == text

\* line 108: resp.text || '[No content]'
Reply(text) == IF text # <<>> THEN text ELSE noContent

\* mutant of WithReply: the reply is appended to the history of the render
\* that sent the request, which lacks the optimistic user message
WithReplyOnStaleHistory(h, reply) ==
    Append(SubSeq(h, 1, Len(h) - 1), ChatMsg("model", reply))

\* line 109: (h) => [...h, { role: "model", parts: [{ text: reply }] }]
WithReply(h, reply) == Append(h, ChatMsg("model", reply))

\* mutant of ErrorText: no fallback to String(err)
ErrorTextMessageOnly(err) == err.message

\* line 111: err?.message || String(err)
ErrorText(err) == IF err.message # "" THEN err.message ELSE err.string

\* line 63-72, the effect body: the interval it starts, if any
StartReveal(h, isLoading) ==
    IF isLoading THEN <<>>
    ELSE IF h # <<>> /\ h[Len(h)].role = "model"
         THEN << [text |-> h[Len(h)].parts[1].text, i |-> 0] >>
         ELSE <<>>

\* mutant of RevealEffect: no cleanup, the previous interval keeps running
RevealEffectWithoutCleanup(running, h, isLoading) ==
    running \o StartReveal(h, isLoading)

\* line 62-75 when [history, loading] changed: the cleanup of the previous
\* run (line 73) clears the interval that run started, then the body runs
RevealEffect(running, h, isLoading) == StartReveal(h, isLoading)

\* line 69: the text the callback displays
Revealed(iv) == slice(iv.text, iv.i)

\* mutant of AfterTick: cleared once i >= text.length
AfterTickEarly(iv) ==
    IF iv.i + 1 >= Len(iv.text) THEN <<>> ELSE << [iv EXCEPT !.i = iv.i + 1] >>

\* line 70-71: the interval after one callback, cleared once i > text.length
AfterTick(iv) ==
    IF iv.i + 1 > Len(iv.text) THEN <<>> ELSE << [iv EXCEPT !.i = iv.i + 1] >>

\* mutant of StoreOnKeyChange: rememberKey is not looked at
StoreOnKeyChangeAlways(remember, v, stored) == <<v>>

\* mutant of StoreOnKeyChange: a key change never writes the slot
StoreOnKeyChangeNever(remember, v, stored) == stored

\* line 172
StoreOnKeyChange(remember, v, stored) == IF remember THEN <<v>> ELSE stored

\* line 180-181
StoreOnToggle(checked, key, stored) ==
    IF ~checked THEN NoItem
    ELSE IF key # "" THEN <<key>> ELSE stored

\* line 44-45: the key after the load effect, saved being what getItem gave
LoadKey(saved, key) ==
    IF saved # NoItem /\ saved[1] # "" THEN saved[1] ELSE key

\* line 246: the submit button's disabled attribute
sendBtnDisabled == loading \/ trim(input) = <<>> \/ apiKey = ""

----------------------------------------------------------------------------
(* Initial state: the component as constructed, before its effects run *)

Init ==
    /\ model = defaultModel
    /\ history = <<>>
    /\ input = <<>>
    /\ apiKey = ""
    /\ displayedText = <<>>
    /\ rememberKey = TRUE
    /\ theme = "default"
    /\ loading = FALSE
    /\ error = ""
    /\ role = roles[1]
    /\ localStorage \in StoredAtStart
    /\ intervals = <<>>
    /\ requests = <<>>
    /\ mounted = FALSE
    /\ props = << starterDefault >>
    /\ rejectedKeys \in SUBSET (ApiKeys \ {""})
    /\ edits = 0
    /\ pc = "not called"
    /\ log = <<>>

----------------------------------------------------------------------------
(* Actions *)

\* line 43-53 and 62-75: the effects of the first render
Mount ==
    /\ ~mounted
    /\ mounted' = TRUE
    /\ apiKey' = LoadKey(localStorage, apiKey)
    /\ history' = << ChatMsg("model", greeting) >>
    /\ input' = IF starter # <<>> THEN starter ELSE input
    /\ intervals' = RevealEffect(intervals, history', loading)
    /\ UNCHANGED <<model, displayedText, rememberKey, theme, loading, error,
                   role, localStorage, requests, edits, pc, log,
                   props, rejectedKeys>>

\* line 48-53 and 62-75: AItest is rendered with another starter prop, so
\* the greeting effect (deps [starter]) runs again
Rerender(s) ==
    /\ mounted
    /\ s # starter
    /\ edits < MaxEdits
    /\ edits' = edits + 1
    /\ props' = Append(props, s)
    /\ history' = << ChatMsg("model", greeting) >>
    /\ input' = IF s # <<>> THEN s ELSE input
    /\ intervals' = RevealEffect(intervals, history', loading)
    /\ UNCHANGED <<model, apiKey, displayedText, rememberKey, theme, loading,
                   error, role, localStorage, requests, mounted, pc, log,
                   rejectedKeys>>

\* line 156
SetModel(v) ==
    /\ mounted
    /\ edits < MaxEdits
    /\ edits' = edits + 1
    /\ model' = v
    /\ UNCHANGED <<history, input, apiKey, displayedText, rememberKey, theme,
                   loading, error, role, localStorage, intervals, requests,
                   mounted, pc, log,
                   props, rejectedKeys>>

\* line 243
SetInput(v) ==
    /\ mounted
    /\ edits < MaxEdits
    /\ edits' = edits + 1
    /\ input' = v
    /\ UNCHANGED <<model, history, apiKey, displayedText, rememberKey, theme,
                   loading, error, role, localStorage, intervals, requests,
                   mounted, pc, log,
                   props, rejectedKeys>>

\* line 139
SetTheme(t) ==
    /\ mounted
    /\ edits < MaxEdits
    /\ edits' = edits + 1
    /\ theme' = t
    /\ UNCHANGED <<model, history, input, apiKey, displayedText, rememberKey,
                   loading, error, role, localStorage, intervals, requests,
                   mounted, pc, log,
                   props, rejectedKeys>>

\* line 193
SetRole(k) ==
    /\ mounted
    /\ edits < MaxEdits
    /\ edits' = edits + 1
    /\ role' = roles[k]
    /\ UNCHANGED <<model, history, input, apiKey, displayedText, rememberKey,
                   theme, loading, error, localStorage, intervals, requests,
                   mounted, pc, log,
                   props, rejectedKeys>>

\* line 170-173
SetApiKey(v) ==
    /\ mounted
    /\ apiKey' = v
    /\ localStorage' = StoreOnKeyChange(rememberKey, v, localStorage)
    /\ UNCHANGED <<model, history, input, displayedText, rememberKey, theme,
                   loading, error, role, intervals, requests, mounted, edits,
                   pc, log,
                   props, rejectedKeys>>

\* line 178-182
SetRememberKey(checked) ==
    /\ mounted
    /\ rememberKey' = checked
    /\ localStorage' = StoreOnToggle(checked, apiKey, localStorage)
    /\ UNCHANGED <<model, history, input, apiKey, displayedText, theme,
                   loading, error, role, intervals, requests, mounted, edits,
                   pc, log,
                   props, rejectedKeys>>

\* the number of messages put into the transcript so far (the setHistory
\* calls of lines 49, 102 and 109), those that a later greeting has replaced
\* included: one greeting per starter prop once the effects have run, one
\* user message per dispatch, one reply per resolved call.  It is
\* Len(history) as long as the starter prop has not changed.
Appended ==
    (IF mounted THEN Len(props) ELSE 0) + Len(log)
        + Cardinality({n \in 1..Len(log) : log[n].outcome = "resolved"})

\* line 91-103: sendMessage up to the await
sendMessage(message) ==
    LET content == Content(role.prompt, message, input) IN
    /\ mounted
    /\ IF Returns(content, loading)
       THEN /\ pc' = "returned"
            /\ UNCHANGED <<model, history, input, apiKey, displayedText,
                        rememberKey, theme, loading, error, role,
                        localStorage, intervals, requests, mounted, edits,
                        log,
                   props, rejectedKeys>>
       ELSE IF ai(apiKey, rejectedKeys) = NoClient
       THEN /\ error' = noKeyError
            /\ pc' = "no client"
            /\ UNCHANGED <<model, history, input, apiKey, displayedText,
                           rememberKey, theme, loading, role, localStorage,
                           intervals, requests, mounted, edits, log,
                   props, rejectedKeys>>
       ELSE /\ Appended + 2 <= MaxHistory
            /\ pc' = "awaiting"
            /\ error' = ""
            /\ loading' = TRUE
            /\ history' = NewHistory(history, content)
            /\ input' = <<>>
            /\ requests' = Append(requests,
                                  [model |-> model, contents |-> history'])
            /\ intervals' = RevealEffect(intervals, history', loading')
            /\ log' = Append(log, [before |-> history,
                                    text |-> Text(message, input),
                                    user |-> content,
                                    outcome |-> "pending",
                                    reply |-> <<>>])
            /\ UNCHANGED <<model, apiKey, displayedText, rememberKey, theme,
                           role, localStorage, mounted, edits,
                   props, rejectedKeys>>

\* line 237: the form's onSubmit
Submit == sendMessage(Undefined)

\* line 253-254: a quick example's onClick
QuickExample(q) == sendMessage(<<q>>)

Remove(seq, k) == SubSeq(seq, 1, k - 1) \o SubSeq(seq, k + 1, Len(seq))

\* the log entry of the k-th outstanding request: requests are answered and
\* logged in dispatch order, the outstanding ones being the last of the log
LogIndex(k) == Len(log) - Len(requests) + k

\* line 106-109 and 112-113: the call resolves
Resolve(k, text) ==
    /\ k \in 1..Len(requests)
    /\ history' = WithReply(history, Reply(text))
    /\ loading' = FALSE
    /\ requests' = Remove(requests, k)
    /\ intervals' = RevealEffect(intervals, history', loading')
    /\ log' = [log EXCEPT ![LogIndex(k)] =
                    [@ EXCEPT !.outcome = "resolved", !.reply = Reply(text)]]
    /\ pc' = "resolved"
    /\ UNCHANGED <<model, input, apiKey, displayedText, rememberKey, theme,
                   error, role, localStorage, mounted, edits,
                   props, rejectedKeys>>

\* mutant of Reject: no finally block, loading stays set
RejectWithoutFinally(k, err) ==
    /\ k \in 1..Len(requests)
    /\ error' = ErrorText(err)
    /\ requests' = Remove(requests, k)
    /\ log' = [log EXCEPT ![LogIndex(k)].outcome = "rejected"]
    /\ pc' = "rejected"
    /\ UNCHANGED <<model, history, input, apiKey, displayedText, rememberKey,
                   theme, loading, role, localStorage, intervals, mounted,
                   edits,
                   props, rejectedKeys>>

\* mutant of Reject: the optimistic user message is taken back
RejectTakingBack(k, err) ==
    /\ k \in 1..Len(requests)
    /\ error' = ErrorText(err)
    /\ loading' = FALSE
    /\ history' = SubSeq(history, 1, Len(history) - 1)
    /\ requests' = Remove(requests, k)
    /\ intervals' = RevealEffect(intervals, history', loading')
    /\ log' = [log EXCEPT ![LogIndex(k)].outcome = "rejected"]
    /\ pc' = "rejected"
    /\ UNCHANGED <<model, input, apiKey, displayedText, rememberKey, theme,
                   role, localStorage, mounted, edits,
                   props, rejectedKeys>>

\* line 110-113: the call throws
Reject(k, err) ==
    /\ k \in 1..Len(requests)
    /\ error' = ErrorText(err)
    /\ loading' = FALSE
    /\ requests' = Remove(requests, k)
    /\ intervals' = RevealEffect(intervals, history, loading')
    /\ log' = [log EXCEPT ![LogIndex(k)].outcome = "rejected"]
    /\ pc' = "rejected"
    /\ UNCHANGED <<model, history, input, apiKey, displayedText, rememberKey,
                   theme, role, localStorage, mounted, edits,
                   props, rejectedKeys>>

\* line 68-72: an interval's callback
Tick(k) ==
    /\ k \in 1..Len(intervals)
    /\ displayedText' = Revealed(intervals[k])
    /\ intervals' = SubSeq(intervals, 1, k - 1) \o AfterTick(intervals[k])
                        \o SubSeq(intervals, k + 1, Len(intervals))
    /\ UNCHANGED <<model, history, input, apiKey, rememberKey, theme, loading,
                   error, role, localStorage, requests, mounted, edits, pc, log,
                   props, rejectedKeys>>

Next ==
    \/ Mount
    \/ \E s \in StarterProps : Rerender(s)
    \/ \E v \in ModelIds : SetModel(v)
    \/ \E v \in InputTexts : SetInput(v)
    \/ \E t \in PickedThemes : SetTheme(t)
    \/ \E k \in PickedRoles : SetRole(k)
    \/ \E v \in ApiKeys : SetApiKey(v)
    \/ \E c \in BOOLEAN : SetRememberKey(c)
    \/ Submit
    \/ \E q \in ClickedExamples : QuickExample(q)
    \/ \E k \in 1..Len(requests), t \in RespTexts : Resolve(k, t)
    \/ \E k \in 1..Len(requests), e \in Thrown : Reject(k, e)
    \/ \E k \in 1..Len(intervals) : Tick(k)

Spec == Init /\ [][Next]_vars

\* the fairness the code's scheduling gives: a running interval keeps firing
\* (setInterval, line 68), and the external call eventually settles, which
\* is the proviso of the claims about it
FairSpec ==
    /\ Spec
    /\ WF_vars(\E k \in 1..Len(intervals) : Tick(k))
    /\ WF_vars(\/ \E k \in 1..Len(requests), t \in RespTexts : Resolve(k, t)
               \/ \E k \in 1..Len(requests), e \in Thrown : Reject(k, e))

----------------------------------------------------------------------------
(* Notions the claims use *)

\* the arguments sendMessage is called with: none (onSubmit) or a quick example
Messages == {Undefined} \cup { <<q>> : q \in ClickedExamples }

GreetingMsg == ChatMsg("model", greeting)

\* the starter prop has been the same on every render so far, so the
\* greeting effect has run once
StarterFixed == Len(props) = 1

LastIsModel == history # <<>> /\ history[Len(history)].role = "model"

LastText == IF history = <<>> THEN <<>> ELSE history[Len(history)].parts[1].text

\* the transcript a log of exchanges stands for: per exchange the user
\* message and, when it was answered, the reply
RECURSIVE Transcript(_)
Transcript(l) ==
    IF l = <<>> THEN << GreetingMsg >>
    ELSE LET e == l[Len(l)] IN
         Transcript(SubSeq(l, 1, Len(l) - 1))
            \o << ChatMsg("user", e.user) >>
            \o (IF e.outcome = "resolved" THEN << ChatMsg("model", e.reply) >>
                ELSE <<>>)

AllResolved == \A i \in 1..Len(log) : log[i].outcome = "resolved"

----------------------------------------------------------------------------
(* Claims *)

\* C1: in every reachable state at most one generation request is
\* outstanding, and a request is outstanding only while loading is true.
C1_OneRequestInFlight ==
    /\ Len(requests) <= 1
    /\ requests # <<>> => loading

\* a send was attempted while a request was outstanding, and returned
C1_Witness == loading /\ Len(requests) = 1 /\ pc = "returned"

\* C2: when every send so far was dispatched and answered successfully, the
\* history is the greeting followed, per send and in the order the sends
\* were issued, by that send's user message and then its reply: two elements
\* per send.  The sends are those of one transcript: the starter prop has
\* not changed, which would start the transcript again.
C2_TwoPerSuccessfulSend ==
    (mounted /\ StarterFixed /\ AllResolved) =>
        /\ history = Transcript(log)
        /\ Len(history) = 1 + 2 * Len(log)

\* two sends with different texts, both answered
C2_Witness ==
    /\ StarterFixed
    /\ Len(log) = 2
    /\ AllResolved
    /\ log[1].user # log[2].user
    /\ ~loading

\* C3 (as claimed): a send whose text is empty after trimming leaves the
\* history unchanged, issues no request and leaves loading as it was,
\* whatever the persona and whether or not an API key is set.
C3_EmptySendIsNoOp ==
    [][\A m \in Messages :
          (Text(m, input) = <<>> /\ sendMessage(m)) =>
              /\ history' = history
              /\ requests' = requests
              /\ loading' = loading]_vars

\* C4: a send of non-empty text while not loading and with no client, the
\* key being empty or one the constructor throws on, appends no user message, issues no request, leaves loading false and the
\* input as it was, and sets a non-empty error.
C4_NoKeySendOnlySetsError ==
    [][\A m \in Messages :
          (/\ ~loading
           /\ (apiKey = "" \/ apiKey \in rejectedKeys)
           /\ Text(m, input) # <<>>
           /\ sendMessage(m)) =>
              /\ history' = history
              /\ requests' = requests
              /\ loading' = FALSE
              /\ input' = input
              /\ error' # ""]_vars

\* such a send has just returned at line 96
C4_Witness ==
    /\ pc = "no client"
    /\ apiKey = ""
    /\ error = noKeyError
    /\ ~loading
    /\ requests = <<>>
    /\ Len(history) = 1

\* C5: while loading is true every send call, with any text and with or
\* without an API key, changes neither history, input, error nor loading
\* and issues no request.
C5_SendWhileLoadingIsNoOp ==
    [][\A m \in Messages :
          (loading /\ sendMessage(m)) =>
              UNCHANGED <<history, input, error, loading, requests>>]_vars

\* a send call returned at line 93 while loading, with no client at hand
C5_Witness == loading /\ pc = "returned" /\ apiKey = "" /\ Len(requests) = 1

\* C6: after a dispatched request has failed, the history is the history
\* before the send plus the optimistic user message and nothing else, the
\* error is non-empty and loading is false.  The history is that of one
\* transcript: the starter prop has not changed.
C6_FailureKeepsUserMessage ==
    (pc = "rejected" /\ StarterFixed) =>
        LET e == log[Len(log)] IN
        /\ e.outcome = "rejected"
        /\ history = Append(e.before, ChatMsg("user", e.user))
        /\ error # ""
        /\ ~loading

\* the first request failed with an Error that carries no message
C6_Witness ==
    /\ pc = "rejected"
    /\ Len(history) = 2
    /\ error = "Error"

\* C7: whenever rememberKey is off the storage slot is absent: toggling it
\* off removes the key, and no later key change writes it back.
C7_NotRememberedNotStored == ~rememberKey => localStorage = NoItem

\* rememberKey is off, a key is in memory, the slot is absent
C7_Witness == ~rememberKey /\ apiKey = "key-A" /\ localStorage = NoItem

\* C8 (as claimed): from one tick of a reveal to the next the displayed text
\* does not get shorter, and at the moment a reveal starts for a new last
\* model message the displayed text is empty.
C8_RevealStartsEmpty ==
    [][/\ \A k \in 1..Len(intervals) :
             (Tick(k) /\ intervals[k].i > 0) =>
                 Len(displayedText') >= Len(displayedText)
       /\ (intervals' # intervals /\ intervals' # <<>> /\ intervals'[1].i = 0) =>
             displayedText' = <<>>]_vars

\* C9: once a model message is the last one and loading is false, then,
\* unless a new send intervenes, the displayed text eventually equals that
\* message's text and the interval is cleared.
C9_RevealCompletes ==
    [](( mounted /\ ~loading /\ LastIsModel) =>
            <>(loading \/ (displayedText = LastText /\ intervals = <<>>)))

\* a reply is shown in full and its interval is cleared
C9_Witness ==
    /\ ~loading
    /\ Len(history) >= 3
    /\ LastIsModel
    /\ displayedText = LastText
    /\ intervals = <<>>

\* C10: loading always ends; it starts only with the optimistic user message
\* appended, the history does not change while it lasts unless the starter
\* prop changes, and it ends either
\* with one model message appended and no error, or with an error and the
\* history as it was.
C10_ExchangeReturnsToIdle ==
    /\ loading ~> ~loading
    /\ [][/\ (~loading /\ loading') =>
                /\ Len(history') = Len(history) + 1
                /\ SubSeq(history', 1, Len(history)) = history
                /\ history'[Len(history')].role = "user"
          /\ (loading /\ loading' /\ props' = props) => history' = history
          /\ (loading /\ ~loading') =>
                \/ /\ Len(history') = Len(history) + 1
                   /\ SubSeq(history', 1, Len(history)) = history
                   /\ history'[Len(history')].role = "model"
                   /\ error' = ""
                \/ /\ history' = history
                   /\ error' # ""]_vars

\* an exchange has ended with a reply, back in Idle
C10_Witness ==
    /\ pc = "resolved"
    /\ ~loading
    /\ requests = <<>>
    /\ error = ""
    /\ Len(history) = 3

\* C11: every API-key change made while rememberKey is on leaves the storage
\* slot equal to the new in-memory key, and the first render loads a
\* non-empty stored key into apiKey.
C11_KeyStoredAndLoaded ==
    [][/\ \A v \in ApiKeys :
             (rememberKey /\ SetApiKey(v)) =>
                 /\ apiKey' = v
                 /\ localStorage' = << apiKey' >>
       /\ (Mount /\ localStorage # NoItem /\ localStorage[1] # "") =>
             apiKey' = localStorage[1]]_vars

\* a send found no key after the first render, although the constructor
\* throws on none, so nothing was loaded; the key now in memory was typed
\* in, and the slot holds it
C11_Witness ==
    /\ rejectedKeys = {}
    /\ pc = "no client"
    /\ rememberKey
    /\ apiKey = "key-A"
    /\ localStorage = <<"key-A">>

\* C12: after the first render every step that is a send, a response, a
\* failure, an edit or a tick, which is every step but a render with
\* another starter prop, leaves the previous history as a prefix of the new
\* one and adds at most one element: nothing is removed, reordered or
\* rewritten.
C12_HistoryAppendOnly ==
    [][(mounted /\ props' = props) =>
          /\ Len(history') >= Len(history)
          /\ Len(history') <= Len(history) + 1
          /\ SubSeq(history', 1, Len(history)) = history]_vars

\* the history has grown by a failed exchange and then an answered one
C12_Witness ==
    /\ Len(history) = 4
    /\ history[2].role = "user"
    /\ history[3].role = "user"
    /\ history[4].role = "model"

\* C13: the call a dispatching send makes is given, as contents, the history
\* as it was before the send followed by one user message whose text is the
\* selected persona's prompt, a blank line and the trimmed text (the
\* argument if given, else the input field), and, as model, the model id
\* configured at that moment.
C13_RequestCarriesHistoryAndMessage ==
    [][\A m \in Messages :
          (Len(requests') = Len(requests) + 1 /\ sendMessage(m)) =>
              LET sent == requests'[Len(requests')]
                  raw == IF m = Undefined THEN input ELSE m[1]
              IN /\ sent.contents =
                       Append(history,
                              ChatMsg("user",
                                      role.prompt \o <<"\n", "\n">> \o trim(raw)))
                 /\ sent.model = model]_vars

\* a request is outstanding that was sent from the input field " y " on a
\* history of three messages
C13_Witness ==
    /\ Len(requests) = 1
    /\ requests[1].model = defaultModel
    /\ Len(requests[1].contents) = 4
    /\ requests[1].contents[4] = ChatMsg("user", <<"C", "\n", "\n", "y">>)

\* C14: in every reachable state at most one interval is running, none is
\* running while loading or while the last message is a user message, a
\* running one has a cursor not beyond its text's length and reveals the
\* current last message; and on every step that changes history or loading
\* no interval of before the step is left: whatever runs after it was
\* started by it, with its cursor at 0.
C14_OneRevealTimer ==
    /\ [](/\ Len(intervals) <= 1
          /\ loading => intervals = <<>>
          /\ (history # <<>> /\ ~LastIsModel) => intervals = <<>>
          /\ \A k \in 1..Len(intervals) :
                /\ intervals[k].i <= Len(intervals[k].text)
                /\ intervals[k].text = LastText)
    /\ [][(history' # history \/ loading' # loading) =>
              \A k \in 1..Len(intervals') :
                  /\ intervals'[k].i = 0
                  /\ intervals'[k].text = LastText']_vars

\* a send has cut the reveal of the greeting short: its interval is gone
\* with one character displayed
C14_Witness ==
    /\ loading
    /\ intervals = <<>>
    /\ displayedText = <<"h">>

\* C15 (as claimed): a dispatch clears error and input and sets loading, so
\* loading implies an empty error; and an error, once set by a failure or
\* by a send without a key, stays as it is until a send is dispatched.
C15_ErrorKeptUntilDispatch ==
    /\ [](loading => error = "")
    /\ [][/\ (~loading /\ loading') => (error' = "" /\ input' = <<>>)
          /\ (error # "" /\ error' # error) => (~loading /\ loading')]_vars

\* C15 (amended): a dispatch clears error and input and sets loading, so
\* loading implies an empty error; a non-empty error is emptied by a
\* dispatch only, and is otherwise changed only by a send without a key,
\* which puts the missing-key text in its place.
C15_ErrorClearedOnlyByDispatch ==
    /\ [](loading => error = "")
    /\ [][/\ (~loading /\ loading') => (error' = "" /\ input' = <<>>)
          /\ (error # "" /\ error' = "") => (~loading /\ loading')
          /\ (error # "" /\ error' # error /\ error' # "") =>
                /\ pc' = "no client"
                /\ error' = noKeyError
                /\ UNCHANGED <<loading, history, requests>>]_vars

\* a request failed, then a send without a key replaced the failure's text
C15_Witness ==
    /\ pc = "no client"
    /\ error = noKeyError
    /\ Len(log) = 1
    /\ log[1].outcome = "rejected"
    /\ ~loading

\* C16: a resolving call appends one model message whose text is the text
\* returned or, when none was returned, the placeholder; and in every
\* reachable state every model message of the history has a non-empty text.
C16_ModelTextNeverEmpty ==
    /\ [](\A n \in 1..Len(history) :
              history[n].role = "model" => history[n].parts[1].text # <<>>)
    /\ [][\A k \in 1..Len(requests), t \in RespTexts :
              Resolve(k, t) =>
                  history' = Append(history,
                                    ChatMsg("model",
                                            IF t = <<>> THEN noContent ELSE t))]_vars

\* a call returned no text and the placeholder was appended
C16_Witness ==
    /\ pc = "resolved"
    /\ Len(history) = 3
    /\ history[3] = ChatMsg("model", noContent)

\* C17: a failing call changes the error and the loading flag only: the
\* history, the model id, the key, rememberKey, the stored key, the persona,
\* the theme, the input and the displayed text are as before, no request is
\* issued in its place, and loading is false after it; unless a changed
\* starter prop has started the transcript again, the history ends in the
\* optimistic user message and no reveal starts.  And a send with a client
\* and some text made while not loading, after a failure as at any other
\* time, is dispatched.
C17_FailureChangesErrorAndLoadingOnly ==
    [][/\ \A k \in 1..Len(requests), e \in Thrown :
             Reject(k, e) =>
                 /\ UNCHANGED <<history, model, apiKey, rememberKey,
                                localStorage, role, theme, input,
                                displayedText, props>>
                 /\ StarterFixed =>
                        /\ history[Len(history)].role = "user"
                        /\ intervals' = intervals
                 /\ ~loading'
                 /\ error' # ""
                 /\ requests' = <<>>
       /\ \A m \in Messages :
             (/\ ~loading
              /\ ai(apiKey, rejectedKeys) # NoClient
              /\ Text(m, input) # <<>>
              /\ sendMessage(m)) =>
                 /\ loading'
                 /\ Len(requests') = 1
                 /\ Len(history') = Len(history) + 1]_vars

\* the first request has failed and the send that followed is dispatched
C17_Witness ==
    /\ Len(log) = 2
    /\ log[1].outcome = "rejected"
    /\ log[2].outcome = "pending"
    /\ loading
    /\ Len(requests) = 1
    /\ Len(history) = 3

\* C18 (as claimed): whenever loading is false and the last message is a
\* model message, the state in which the transcript shows the displayed
\* text in that message's place, the displayed text is a prefix of that
\* message's text.
C18_DisplayedIsPrefixOfLast ==
    (mounted /\ ~loading /\ LastIsModel) =>
        /\ Len(displayedText) <= Len(LastText)
        /\ displayedText = SubSeq(LastText, 1, Len(displayedText))

\* C19: after the first render, and as long as the starter prop has not
\* changed, the history is non-empty, its first element
\* is the greeting, and every model message after the first follows a user
\* message directly: two replies are never adjacent, two user messages may
\* be.
C19_GreetingThenAlternation ==
    (mounted /\ StarterFixed) =>
        /\ history # <<>>
        /\ history[1] = GreetingMsg
        /\ \A n \in 2..Len(history) :
              history[n].role = "model" => history[n - 1].role = "user"

\* two requests failed in a row and left two user messages adjacent
C19_Witness ==
    /\ StarterFixed
    /\ pc = "rejected"
    /\ Len(history) = 3
    /\ history[1] = GreetingMsg
    /\ history[2].role = "user"
    /\ history[3].role = "user"

====
